---------------------------- MODULE Spec2Model ----------------------------
(***************************************************************************)
(* A model of streamlit_app.py: the concurrent dispatcher                  *)
(* (process_usernames), the per-handle task (fetch_single_user_data), the  *)
(* two fetchers (fetch_user_videos with its retry loop, fetch_user_info    *)
(* with the module-level profile cache and its lock), the diagnostic probe *)
(* (get_account_status_info), the operator's "clear cache" button and the  *)
(* part of main() that derives the failed-handle list from the batch       *)
(* output.                                                                 *)
(*                                                                         *)
(* The HTTP API is the environment: every request is answered by a         *)
(* response drawn from a finite set (api_posts, api_info) fixed by the     *)
(* initial state.  The clear button is modelled as a thread of its own     *)
(* that may run at any moment.                                             *)
(***************************************************************************)
EXTENDS Integers, Sequences, FiniteSets, TLC

VARIABLES
    usernames,           \* process_usernames argument: the list of handles
    video_limit,         \* process_usernames argument
    max_workers,         \* process_usernames argument
    api_posts,           \* what /api/user/posts may answer (per handle)
    api_info,            \* what /api/user/info may answer (per handle)
    tasks,               \* one record per submitted future (locals of its call)
    user_info_cache,     \* the module-level dict, handle -> profile record
    cache_lock,          \* the set of threads holding cache_lock
    put_at,              \* handle -> time of the last insert into the cache
    now,                 \* wall clock, in seconds
    mainpc,              \* position of the thread running main()
    future_to_username,  \* the dict built by process_usernames
    all_data,            \* process_usernames local
    success_count,       \* process_usernames local
    error_count,         \* process_usernames local
    completed_count,     \* process_usernames local
    outcomes,            \* the (future, success, reason) triples in collection order
    display,             \* what main() hands to the display layer
    oppc,                \* position of the thread running the clear button
    clears,              \* number of clicks on the clear button so far
    anpc,                \* position of main() in the analysis of the output
    result_df,           \* main local: the frame process_usernames returned
    result_df_with_throttling,  \* main local, line 1115
    analytics_df,        \* main local, line 1119
    account_throttling_df       \* main local, line 1128

vars == <<usernames, video_limit, max_workers, api_posts, api_info, tasks,
          user_info_cache, cache_lock, put_at, now, mainpc, future_to_username,
          all_data, success_count, error_count, completed_count, outcomes,
          display, oppc, clears, anpc, result_df, result_df_with_throttling,
          analytics_df, account_throttling_df>>

-----------------------------------------------------------------------------
(* Bounds of the model                                                     *)

MaxHandles == 2     \* longest list of handles of a concurrent batch
MaxWorkers == 2     \* largest max_workers of a concurrent batch
MaxClears  == 1     \* clicks on the clear button during a behaviour
MaxTicks   == 2     \* clock ticks during a behaviour
TickStep   == 151   \* seconds per clock tick
MaxCalls   == 2     \* calls of fetch_single_user_data of a sequential run
MaxLimit   == 2     \* largest video_limit of a sequential run
MaxRows    == 5     \* largest number of posts of an account, in every order
MaxChars   == 3     \* longest handle of which every spelling is tried
MaxGrowthRows == 4  \* posts of an account, with every publish time and order

(* Program constants                                                       *)

MaxRetries  == 2    \* fetch_user_videos(max_retries=2)
CacheTTL    == 300  \* @st.cache_data(ttl=300), "用户信息自动缓存5分钟"
MaxNameLen  == 24   \* {1,24} of the handle pattern

(* Python values that are not numbers: a key that is absent from a JSON    *)
(* object, and JSON null (None).  Counts are >= 0, so both are negative.   *)
Absent == -1
Null   == -2

Min(a, b) == IF a <= b THEN a ELSE b

RECURSIVE Concat(_)
Concat(ss) == IF ss = <<>> THEN <<>> ELSE Head(ss) \o Concat(Tail(ss))

-----------------------------------------------------------------------------
(* Handles.  A handle read from the uploaded file is a Python str or, for  *)
(* a numeric cell, an int.                                                 *)

Str(s) == [py |-> "str", s |-> s, n |-> 0]
PyInt(n) == [py |-> "int", s |-> <<>>, n |-> n]

Lower == {"a","b","c","d","e","f","g","h","i","j","k","l","m",
          "n","o","p","q","r","s","t","u","v","w","x","y","z"}
Upper == {"A","B","C","D","E","F","G","H","I","J","K","L","M",
          "N","O","P","Q","R","S","T","U","V","W","X","Y","Z"}
Digit == {"0","1","2","3","4","5","6","7","8","9"}
Whitespace == {" ", "\t", "\n", "\r"}

\* the character class [a-zA-Z0-9._]
PatternChars == Lower \cup Upper \cup Digit \cup {".", "_"}

\* str.strip()
RECURSIVE LStrip(_)
LStrip(s) == IF s # <<>> /\ Head(s) \in Whitespace THEN LStrip(Tail(s)) ELSE s

RECURSIVE RStrip(_)
RStrip(s) ==
    IF s # <<>> /\ s[Len(s)] \in Whitespace
    THEN RStrip(SubSeq(s, 1, Len(s) - 1)) ELSE s

\* (mutant) the handle is matched as it is, without strip()
StripNothing(s) == s

Strip(s) == RStrip(LStrip(s))

\* re.match(r'^[a-zA-Z0-9._]{1,24}$', s); $ also matches just before a
\* newline that ends the string
PatternMatch(s) ==
    LET body == IF s # <<>> /\ s[Len(s)] = "\n"
                THEN SubSeq(s, 1, Len(s) - 1) ELSE s
    IN  \/ /\ Len(s) >= 1
           /\ Len(s) <= MaxNameLen
           /\ \A k \in 1..Len(s) : s[k] \in PatternChars
        \/ /\ Len(body) >= 1
           /\ Len(body) <= MaxNameLen
           /\ \A k \in 1..Len(body) : body[k] \in PatternChars

\* bool(username): "" and 0 are falsy
Falsy(h) == IF h.py = "str" THEN h.s = <<>> ELSE h.n = 0

\* validate_username raises AttributeError on a truthy int (int has no strip)
ValidateRaises(h) == h.py = "int" /\ ~Falsy(h)

validate_username(h) ==
    IF Falsy(h) \/ Len(Strip(h.s)) = 0 THEN FALSE
    ELSE PatternMatch(Strip(h.s))

-----------------------------------------------------------------------------
(* The API boundary.  A response is what requests.get() does: it raises    *)
(* (exc), or returns an HTTP status and a body that response.json() parses *)
(* or not (parse); a parsed body is a JSON object with an application code *)
(* (NoCode when the key is missing) and possibly a "data" member.          *)

NoCode == -99       \* data.get('code', 'unknown') of a body without "code"

TransientCodes == {-1, -2}     \* error_code in [-1, -2]

ExcKinds == {"Timeout", "ConnectionError"}

NoStats == [followingCount |-> Absent, followerCount |-> Absent,
            heartCount |-> Absent, heart |-> Absent, videoCount |-> Absent]

NoAuthor == [isNull |-> FALSE, follower_count |-> Absent,
             following_count |-> Absent, heart_count |-> Absent,
             aweme_count |-> Absent]

Resp(exc, status, parse, code, hasData) ==
    [exc |-> exc, status |-> status, parse |-> parse, code |-> code,
     hasData |-> hasData, videos |-> <<>>,
     hasUser |-> FALSE, hasStats |-> FALSE, nickname |-> Str(<<>>),
     stats |-> NoStats]

RaisesResp(e)   == Resp(e, 0, FALSE, NoCode, FALSE)
HttpResp(st)    == Resp("none", st, TRUE, NoCode, FALSE)
BadJsonResp     == Resp("none", 200, FALSE, NoCode, FALSE)
CodeResp(c)     == Resp("none", 200, TRUE, c, FALSE)
NoDataResp      == Resp("none", 200, TRUE, 0, FALSE)
PostsResp(vs)   == [Resp("none", 200, TRUE, 0, TRUE) EXCEPT !.videos = vs]
InfoResp(nick, hasUser, hasStats, st) ==
    [Resp("none", 200, TRUE, 0, TRUE) EXCEPT
        !.hasUser = hasUser, !.hasStats = hasStats, !.nickname = nick,
        !.stats = st]

\* the value of `response` before the first request
NoResp == Resp("unset", 0, FALSE, NoCode, FALSE)

\* a post of the API's list: its id and its inline author block
Video(h, k, author) == [owner |-> h, video_id |-> k, author |-> author]

Author(follower, following) ==
    [isNull |-> FALSE, follower_count |-> follower,
     following_count |-> following, heart_count |-> 9, aweme_count |-> 4]

NullAuthor == [NoAuthor EXCEPT !.isNull = TRUE]

\* the nickname the API reports for handle h
ApiNick(h) == Str(<<"@">> \o h.s)

\* dict.get(key, default)
GetOr(v, d) == IF v = Absent THEN d ELSE v

\* bool(v) of a JSON number, null or missing key
Truthy(v) == v # Absent /\ v # Null /\ v # 0

-----------------------------------------------------------------------------
(* fetch_user_info: the record built from a response                       *)

ZeroInfo(username) ==
    [nickname |-> username, following |-> 0, follower |-> 0,
     heart |-> 0, video |-> 0]

\* lines 72-82: the result of a successful response
InfoResult(r) ==
    [nickname  |-> r.nickname,
     following |-> GetOr(r.stats.followingCount, 0),
     follower  |-> GetOr(r.stats.followerCount, 0),
     heart     |-> GetOr(r.stats.heartCount, GetOr(r.stats.heart, 0)),
     video     |-> GetOr(r.stats.videoCount, 0)]

\* requests.get / response.json() / data["data"]["user"] / ["stats"] raise
InfoRaises(r) ==
    \/ r.exc \in ExcKinds
    \/ ~r.parse
    \/ (r.code = 0 /\ r.hasData /\ ~(r.hasUser /\ r.hasStats))

\* line 72: data.get("code") == 0 and "data" in data, and nothing raised
InfoSucceeds(r) == ~InfoRaises(r) /\ r.code = 0 /\ r.hasData

\* user_info of a task that has not called fetch_user_info
NoneInfo == [isNone |-> TRUE]
IsNone(x) == "isNone" \in DOMAIN x

-----------------------------------------------------------------------------
(* fetch_user_videos: the pure parts                                       *)

\* (mutant) the newest `limit` posts kept instead of the first
SlicedFromEnd(vs, limit) ==
    SubSeq(vs, Len(vs) - Min(limit, Len(vs)) + 1, Len(vs))

\* data_content.get("videos", [])[:limit], for a positive limit
Sliced(vs, limit) == SubSeq(vs, 1, Min(limit, Len(vs)))

\* (mutant) the lookup is made when either count is missing
LacksEitherCount(author) ==
    ~Truthy(author.follower_count) \/ ~Truthy(author.following_count)

\* line 152: not author.get("follower_count") and not author.get("following_count")
LacksCounts(author) ==
    ~Truthy(author.follower_count) /\ ~Truthy(author.following_count)

\* lines 155-189: one record
PostRecord(username, video, user_info) ==
    IF ~IsNone(user_info)
    THEN [account |-> username, video_id |-> video.video_id,
          owner |-> video.owner,
          nickname |-> user_info.nickname,
          following |-> user_info.following,
          follower |-> user_info.follower,
          heart |-> user_info.heart,
          video |-> user_info.video]
    ELSE [account |-> username, video_id |-> video.video_id,
          owner |-> video.owner,
          nickname |-> username,
          following |-> GetOr(video.author.following_count, 0),
          follower |-> GetOr(video.author.follower_count, 0),
          heart |-> GetOr(video.author.heart_count, 0),
          video |-> GetOr(video.author.aweme_count, 0)]

\* video.get("author", {}) is None for some post: .get raises AttributeError
BuildRaises(videos) == \E k \in 1..Len(videos) : videos[k].author.isNull

BuildRecords(username, videos, user_info) ==
    [k \in 1..Len(videos) |-> PostRecord(username, videos[k], user_info)]

\* get_account_status_info, lines 38-52
ProbeStatus(r) ==
    IF r.exc \in ExcKinds THEN "network_error"
    ELSE IF r.status # 200 THEN "http_error"
    ELSE IF ~r.parse THEN "network_error"
    ELSE "api_response"

-----------------------------------------------------------------------------
(* What the API may answer for handle h                                    *)

FullStats == [followingCount |-> 3, followerCount |-> 5, heartCount |-> 9,
              heart |-> Absent, videoCount |-> 4]

\* the answers of the posts endpoint met by a concurrent batch
BatchPosts(h) ==
    { RaisesResp("Timeout"), CodeResp(10),
      PostsResp(<<Video(h, 1, Author(5, 3))>>),
      PostsResp(<<Video(h, 1, NoAuthor), Video(h, 2, Author(5, 3))>>) }

\* the answers of the profile endpoint met by a concurrent batch
BatchInfo(h) ==
    { RaisesResp("ConnectionError"), HttpResp(500),
      InfoResp(ApiNick(h), TRUE, TRUE, FullStats) }

\* every kind of answer of the posts endpoint
AllPosts(h) ==
    BatchPosts(h) \cup
    { RaisesResp("ConnectionError"), HttpResp(500), BadJsonResp,
      CodeResp(-1), CodeResp(-2), PostsResp(<<>>),
      CodeResp(NoCode), NoDataResp,
      PostsResp(<<Video(h, 1, Author(0, 0)), Video(h, 2, Author(5, 3))>>),
      PostsResp(<<Video(h, 1, Author(Absent, 3))>>),
      PostsResp(<<Video(h, 1, NoAuthor), Video(h, 2, NullAuthor)>>),
      PostsResp(<<Video(h, 1, NullAuthor)>>),
      PostsResp(<<Video(h, 1, Author(Null, 3)), Video(h, 2, Author(7, 0))>>),
      PostsResp(<<Video(h, 1, Author(Null, Null))>>) }

\* every kind of answer of the profile endpoint
AllInfo(h) ==
    BatchInfo(h) \cup
    { RaisesResp("Timeout"), BadJsonResp, CodeResp(10), NoDataResp,
      InfoResp(ApiNick(h), FALSE, TRUE, FullStats),
      InfoResp(ApiNick(h), TRUE, FALSE, NoStats),
      InfoResp(ApiNick(h), TRUE, TRUE, NoStats),
      InfoResp(ApiNick(h), TRUE, TRUE,
               [FullStats EXCEPT !.heartCount = Absent, !.heart = 7]),
      InfoResp(ApiNick(h), TRUE, TRUE,
               [FullStats EXCEPT !.followerCount = Null]) }

-----------------------------------------------------------------------------
(* Exceptions: which handler catches what                                  *)

\* fetch_user_info, line 104: except Exception
InfoCatches(e) == TRUE

\* (mutant) fetch_user_videos without its last handler, except Exception
FvCatchesRequestsOnly(e) == e \in {"Timeout", "ConnectionError"}

\* fetch_user_videos, lines 213, 221, 229: Timeout, RequestException, Exception
FvCatches(e) == TRUE

\* (mutant) the task catches the requests exceptions only
TaskCatchesRequestsOnly(e) == e \in {"Timeout", "ConnectionError"}

\* fetch_single_user_data, line 810: except Exception
TaskCatches(e) == TRUE

\* process_usernames, line 869: except Exception around future.result()
DispatcherCatches(e) == TRUE

-----------------------------------------------------------------------------
(* The locals of one call of fetch_single_user_data                        *)

NoResult == [isNone |-> TRUE]

Result(username, user_data, success, reason) ==
    [username |-> username, user_data |-> user_data, success |-> success,
     reason |-> reason, raised |-> "none"]

\* a future whose call raised e
Raised(username, e) ==
    [username |-> username, user_data |-> <<>>, success |-> FALSE,
     reason |-> "", raised |-> e]

ExceptionReason(e) ==
    CASE e = "AttributeError"  -> "exception_AttributeError"
      [] e = "ValueError"      -> "exception_ValueError"
      [] e = "Timeout"         -> "exception_Timeout"
      [] OTHER                 -> "exception_ConnectionError"

NoDataReason(status) ==
    CASE status = "http_error"    -> "no_data_http_error"
      [] status = "network_error" -> "no_data_network_error"
      [] OTHER                    -> "no_data_api_response"

InitTask(username) ==
    [username  |-> username,
     pc        |-> "unsubmitted",
     worker    |-> 0,           \* the pool thread running the call, 0: none
     slept     |-> FALSE,       \* time.sleep(sleep_time) has returned
     attempt   |-> 0,
     resp      |-> NoResp,      \* the last answer of the posts endpoint
     videos    |-> <<>>,
     user_info |-> NoneInfo,
     user_data |-> <<>>,
     result    |-> NoResult,
     escaped   |-> "none",      \* the fetcher an exception has left, if any
     posts     |-> 0,           \* requests.get calls of the running fetch_user_videos
     backoffs  |-> 0,           \* time.sleep(1) calls of the running fetch_user_videos
     profiles  |-> 0,           \* requests.get calls of its fetch_user_info calls
     contacted |-> {}]          \* the functions that have sent an HTTP request

\* the call returns (or raises): the future is done and the pool thread is free
Finish(t, res) ==
    [t EXCEPT !.pc = "finished", !.worker = 0, !.result = res,
              !.attempt = 0, !.resp = NoResp, !.videos = <<>>,
              !.user_info = NoneInfo, !.user_data = <<>>,
              !.posts = 0, !.backoffs = 0, !.profiles = 0]

\* an exception reaches the try of fetch_single_user_data (lines 794, 810)
TaskExcept(t, e) ==
    IF TaskCatches(e)
    THEN Finish(t, Result(t.username, <<>>, FALSE, ExceptionReason(e)))
    ELSE Finish(t, Raised(t.username, e))

\* fetch_user_videos returns data
FvReturn(t, data) == [t EXCEPT !.pc = "after_fv", !.user_data = data]

\* (mutant) attempt <= max_retries: one retry too many
FvRetryOffByOne(t) ==
    IF t.attempt <= MaxRetries
    THEN [t EXCEPT !.pc = "fv_backoff"]
    ELSE FvReturn(t, <<>>)

\* if attempt < max_retries: time.sleep(1); continue / return []
FvRetry(t) ==
    IF t.attempt < MaxRetries
    THEN [t EXCEPT !.pc = "fv_backoff"]
    ELSE FvReturn(t, <<>>)

\* an exception reaches the try of fetch_user_videos (lines 122, 213-235)
FvExcept(t, e) ==
    IF FvCatches(e)
    THEN FvRetry(t)
    ELSE TaskExcept([t EXCEPT !.escaped = "fetch_user_videos"], e)

\* (mutant) every error code is retried
FvApiErrorAlwaysRetried(t, r) ==
    IF t.attempt < MaxRetries
    THEN [t EXCEPT !.pc = "fv_backoff"]
    ELSE FvReturn(t, <<>>)

\* lines 195-211: the else branch of `code == 0 and "data" in data`
FvApiError(t, r) ==
    IF r.code \in TransientCodes /\ t.attempt < MaxRetries
    THEN [t EXCEPT !.pc = "fv_backoff"]
    ELSE FvReturn(t, <<>>)

\* lines 137-153: a successful answer
FvSuccess(t, r, limit) ==
    LET vs == Sliced(r.videos, limit) IN
    IF vs = <<>> THEN FvReturn(t, <<>>)
    ELSE IF vs[1].author.isNull THEN FvExcept(t, "AttributeError")
    ELSE IF LacksCounts(vs[1].author)
         THEN [t EXCEPT !.videos = vs, !.user_info = NoneInfo, !.pc = "ui_lock"]
         ELSE [t EXCEPT !.videos = vs, !.user_info = NoneInfo, !.pc = "fv_build"]

\* lines 123-235: one answer of the posts endpoint, handled
FvOnResponse(t0, r, limit) ==
    LET t == [t0 EXCEPT !.resp = r] IN
    IF r.exc \in ExcKinds THEN FvExcept(t, r.exc)
    ELSE IF r.status # 200 THEN FvRetry(t)
    ELSE IF ~r.parse THEN FvExcept(t, "ValueError")
    ELSE IF r.code = 0 /\ r.hasData THEN FvSuccess(t, r, limit)
    ELSE FvApiError(t, r)

\* fetch_user_info returns info to line 153
UiReturn(t, info) == [t EXCEPT !.user_info = info, !.pc = "fv_build"]

\* (mutant) the fallback record of a failed lookup is stored like a result
UiOnResponseCachesFallback(t, r) ==
    IF InfoRaises(r) \/ ~InfoSucceeds(r)
    THEN [t EXCEPT !.user_info = ZeroInfo(t.username), !.pc = "ui_put_lock"]
    ELSE [t EXCEPT !.user_info = InfoResult(r), !.pc = "ui_put_lock"]

\* lines 69-115: one answer of the profile endpoint, handled
UiOnResponse(t, r) ==
    IF InfoRaises(r)
    THEN IF InfoCatches("Exception")
         THEN UiReturn(t, ZeroInfo(t.username))
         ELSE FvExcept([t EXCEPT !.escaped = "fetch_user_info"], "ValueError")
    ELSE IF InfoSucceeds(r)
         THEN [t EXCEPT !.user_info = InfoResult(r), !.pc = "ui_put_lock"]
         ELSE UiReturn(t, ZeroInfo(t.username))

\* lines 155-193: the records are built and returned
FvOnBuild(t) ==
    IF BuildRaises(t.videos)
    THEN FvExcept(t, "AttributeError")
    ELSE FvReturn(t, BuildRecords(t.username, t.videos, t.user_info))

-----------------------------------------------------------------------------
(* Threads                                                                 *)

Futures == 1..Len(usernames)

\* the thread that runs main(): the clear button's handler
OperatorThread == 0

Range(f) == {f[x] : x \in DOMAIN f}

Running(i) == tasks[i].worker # 0

BusyWorkers == {tasks[i].worker : i \in {j \in Futures : Running(j)}}

\* the futures as_completed has yielded so far
Yielded == {outcomes[k].future : k \in 1..Len(outcomes)}

SetTask(i, t) == tasks' = [tasks EXCEPT ![i] = t]

DictPut(d, key, val) ==
    [x \in DOMAIN d \cup {key} |-> IF x = key THEN val ELSE d[x]]

inputs == <<usernames, video_limit, max_workers, api_posts, api_info>>
mainvars == <<mainpc, future_to_username, all_data, success_count,
              error_count, completed_count, outcomes, display>>
cachevars == <<user_info_cache, cache_lock, put_at>>
opvars == <<oppc, clears>>
anvars == <<anpc, result_df, result_df_with_throttling, analytics_df,
            account_throttling_df>>
batchvars == <<inputs, tasks, mainvars, cachevars, opvars, now>>

-----------------------------------------------------------------------------
(* ThreadPoolExecutor(max_workers): an idle pool thread takes the oldest   *)
(* queued call                                                             *)

\* (mutant) a call is handed to a pool thread whether or not it is busy
AnyWorker == 1..max_workers

\* the pool threads that may take a call
IdleWorkers == (1..max_workers) \ BusyWorkers

Start(i, w) ==
    /\ tasks[i].pc = "queued"
    /\ \A j \in 1..(i - 1) : tasks[j].pc # "queued"
    /\ w \in IdleWorkers
    /\ SetTask(i, [tasks[i] EXCEPT !.pc = "sleeping", !.worker = w])
    /\ UNCHANGED <<anvars, inputs, mainvars, cachevars, opvars, now>>

(* fetch_single_user_data                                                  *)

\* line 795: time.sleep(sleep_time) returns
Sleep(i) ==
    /\ tasks[i].pc = "sleeping"
    /\ SetTask(i, [tasks[i] EXCEPT !.pc = "validate", !.slept = TRUE])
    /\ UNCHANGED <<anvars, inputs, mainvars, cachevars, opvars, now>>

\* (mutant) the format check is skipped
OnValidateSkipped(t) ==
    IF ValidateRaises(t.username) THEN TaskExcept(t, "AttributeError")
    ELSE [t EXCEPT !.pc = "fv_request"]

\* lines 798-801
OnValidate(t) ==
    IF ValidateRaises(t.username) THEN TaskExcept(t, "AttributeError")
    ELSE IF ~validate_username(t.username)
         THEN Finish(t, Result(t.username, <<>>, FALSE, "invalid_username"))
         ELSE [t EXCEPT !.pc = "fv_request"]

Validate(i) ==
    /\ tasks[i].pc = "validate"
    /\ SetTask(i, OnValidate(tasks[i]))
    /\ UNCHANGED <<anvars, inputs, mainvars, cachevars, opvars, now>>

\* lines 803-808: after fetch_user_videos; the probe's request goes out
OnAfterFv(t) ==
    IF t.user_data # <<>>
    THEN Finish(t, Result(t.username, t.user_data, TRUE, "success"))
    ELSE [t EXCEPT !.pc = "probe_wait",
                 !.contacted = @ \cup {"get_account_status_info"}]

AfterFv(i) ==
    /\ tasks[i].pc = "after_fv"
    /\ SetTask(i, OnAfterFv(tasks[i]))
    /\ UNCHANGED <<anvars, inputs, mainvars, cachevars, opvars, now>>

\* lines 807-808: get_account_status_info returns
OnProbe(t, r) ==
    Finish(t, Result(t.username, <<>>, FALSE, NoDataReason(ProbeStatus(r))))

ProbeRespond(i) ==
    /\ tasks[i].pc = "probe_wait"
    /\ \E r \in api_info[tasks[i].username] : SetTask(i, OnProbe(tasks[i], r))
    /\ UNCHANGED <<anvars, inputs, mainvars, cachevars, opvars, now>>

(* fetch_user_videos                                                       *)

\* line 123: requests.get goes out
OnFvRequest(t) ==
    [t EXCEPT !.pc = "fv_wait", !.posts = @ + 1, !.resp = NoResp,
              !.contacted = @ \cup {"fetch_user_videos"}]

FvRequest(i) ==
    /\ tasks[i].pc = "fv_request"
    /\ SetTask(i, OnFvRequest(tasks[i]))
    /\ UNCHANGED <<anvars, inputs, mainvars, cachevars, opvars, now>>

FvRespond(i) ==
    /\ tasks[i].pc = "fv_wait"
    /\ \E r \in api_posts[tasks[i].username] :
           SetTask(i, FvOnResponse(tasks[i], r, video_limit))
    /\ UNCHANGED <<anvars, inputs, mainvars, cachevars, opvars, now>>

\* time.sleep(1) returns; continue: the next attempt
OnFvBackoff(t) ==
    [t EXCEPT !.pc = "fv_request", !.attempt = @ + 1, !.backoffs = @ + 1]

FvBackoff(i) ==
    /\ tasks[i].pc = "fv_backoff"
    /\ SetTask(i, OnFvBackoff(tasks[i]))
    /\ UNCHANGED <<anvars, inputs, mainvars, cachevars, opvars, now>>

FvBuild(i) ==
    /\ tasks[i].pc = "fv_build"
    /\ SetTask(i, FvOnBuild(tasks[i]))
    /\ UNCHANGED <<anvars, inputs, mainvars, cachevars, opvars, now>>

(* fetch_user_info                                                         *)

\* line 62: with cache_lock
UiAcquire(i) ==
    /\ tasks[i].pc = "ui_lock"
    /\ cache_lock = {}
    /\ cache_lock' = {i}
    /\ SetTask(i, [tasks[i] EXCEPT !.pc = "ui_check"])
    /\ UNCHANGED <<anvars, inputs, mainvars, user_info_cache, put_at, opvars, now>>

\* (mutant) the lookup never finds an entry
OnUiCheckAlwaysMisses(t, cache) == [t EXCEPT !.pc = "ui_request"]

\* lines 63-66: the lookup; the lock is released on the way out
OnUiCheck(t, cache) ==
    IF t.username \in DOMAIN cache
    THEN UiReturn(t, cache[t.username])
    ELSE [t EXCEPT !.pc = "ui_request"]

UiCheck(i) ==
    /\ tasks[i].pc = "ui_check"
    /\ SetTask(i, OnUiCheck(tasks[i], user_info_cache))
    /\ cache_lock' = cache_lock \ {i}
    /\ UNCHANGED <<anvars, inputs, mainvars, user_info_cache, put_at, opvars, now>>

\* line 70: requests.get goes out
UiRequest(i) ==
    /\ tasks[i].pc = "ui_request"
    /\ SetTask(i, [tasks[i] EXCEPT !.pc = "ui_wait", !.profiles = @ + 1,
                                   !.contacted = @ \cup {"fetch_user_info"}])
    /\ UNCHANGED <<anvars, inputs, mainvars, cachevars, opvars, now>>

UiRespond(i) ==
    /\ tasks[i].pc = "ui_wait"
    /\ \E r \in api_info[tasks[i].username] :
           SetTask(i, UiOnResponse(tasks[i], r))
    /\ UNCHANGED <<anvars, inputs, mainvars, cachevars, opvars, now>>

\* (mutant) the insert is made without taking the lock
UiPutUnlocked(i) ==
    /\ tasks[i].pc = "ui_put_lock"
    /\ SetTask(i, [tasks[i] EXCEPT !.pc = "ui_put"])
    /\ UNCHANGED <<anvars, inputs, mainvars, cachevars, opvars, now>>

\* line 84: with cache_lock
UiPutAcquire(i) ==
    /\ tasks[i].pc = "ui_put_lock"
    /\ cache_lock = {}
    /\ cache_lock' = {i}
    /\ SetTask(i, [tasks[i] EXCEPT !.pc = "ui_put"])
    /\ UNCHANGED <<anvars, inputs, mainvars, user_info_cache, put_at, opvars, now>>

\* line 85, and the lock released; the record is returned (line 90)
UiPut(i) ==
    /\ tasks[i].pc = "ui_put"
    /\ user_info_cache' =
           DictPut(user_info_cache, tasks[i].username, tasks[i].user_info)
    /\ put_at' = DictPut(put_at, tasks[i].username, now)
    /\ cache_lock' = cache_lock \ {i}
    /\ SetTask(i, UiReturn(tasks[i], tasks[i].user_info))
    /\ UNCHANGED <<anvars, inputs, mainvars, opvars, now>>

-----------------------------------------------------------------------------
(* process_usernames                                                       *)

\* lines 832-835: the next handle is submitted; the dict maps its future to it
Submit(i) ==
    /\ mainpc = "submit"
    /\ tasks[i].pc = "unsubmitted"
    /\ \A j \in 1..(i - 1) : tasks[j].pc # "unsubmitted"
    /\ SetTask(i, [tasks[i] EXCEPT !.pc = "queued"])
    /\ future_to_username' = DictPut(future_to_username, i, usernames[i])
    /\ mainpc' = IF i = Len(usernames) THEN "collect" ELSE "submit"
    /\ UNCHANGED <<anvars, inputs, all_data, success_count, error_count,
                   completed_count, outcomes, display, cachevars, opvars, now>>

\* (mutant) as_completed yields a finished future again and again
CompletedOrYielded ==
    {f \in DOMAIN future_to_username : tasks[f].pc = "finished"}

\* the futures as_completed may yield next
Completed ==
    {f \in DOMAIN future_to_username :
        tasks[f].pc = "finished" /\ f \notin Yielded}

\* lines 838-877: one turn of the as_completed loop
Collect(f) ==
    /\ mainpc = "collect"
    /\ f \in Completed
    /\ completed_count' = completed_count + 1
    /\ LET r == tasks[f].result IN
       IF r.raised # "none"
       THEN /\ mainpc' = IF DispatcherCatches(r.raised) THEN "collect" ELSE "crashed"
            /\ error_count' = IF DispatcherCatches(r.raised)
                              THEN error_count + 1 ELSE error_count
            /\ UNCHANGED <<all_data, success_count>>
       ELSE IF r.success /\ r.user_data # <<>>
            THEN /\ all_data' = all_data \o r.user_data
                 /\ success_count' = success_count + 1
                 /\ UNCHANGED <<error_count, mainpc>>
            ELSE /\ error_count' = error_count + 1
                 /\ UNCHANGED <<all_data, success_count, mainpc>>
    /\ outcomes' = Append(outcomes,
                          [future |-> f, username |-> future_to_username[f],
                           success |-> tasks[f].result.success,
                           reason |-> tasks[f].result.reason,
                           raised |-> tasks[f].result.raised,
                           records |-> tasks[f].result.user_data])
    /\ UNCHANGED <<anvars, inputs, tasks, future_to_username, display, cachevars,
                   opvars, now>>

\* (mutant) the loop is left at the first failed outcome
PendingUntilFailure ==
    IF \E k \in 1..Len(outcomes) : ~outcomes[k].success
    THEN {}
    ELSE DOMAIN future_to_username \ Yielded

\* the futures the as_completed loop still waits for
Pending == DOMAIN future_to_username \ Yielded

\* lines 878-884: the loop is over, the executor is shut down (every call
\* has returned), the frame is returned
Return ==
    /\ mainpc = "collect"
    /\ Pending = {}
    /\ \A i \in Futures : tasks[i].pc = "finished"
    /\ mainpc' = "returned"
    /\ UNCHANGED <<anvars, inputs, tasks, future_to_username, all_data, success_count,
                   error_count, completed_count, outcomes, display, cachevars,
                   opvars, now>>

(* main(), lines 1033-1147: what the display layer is given                *)

NoDisplay ==
    [kind |-> "none", failed_accounts |-> 0, failed_usernames |-> <<>>,
     listed |-> FALSE, rows |-> {}]

\* lines 1063, 1092: the accounts with at least one record
SuccessfulUsernames(data) == {data[k].account : k \in 1..Len(data)}

\* (mutant) the test of line 1093 without its `not`
FailedUsernamesInverted(names, data) ==
    SelectSeq(names, LAMBDA u : u \in SuccessfulUsernames(data))

\* line 1093
FailedUsernames(names, data) ==
    SelectSeq(names, LAMBDA u : u \notin SuccessfulUsernames(data))

MainDisplay(names, data) ==
    IF data = <<>>
    THEN [NoDisplay EXCEPT !.kind = "warning"]          \* lines 1146-1147
    ELSE LET failed_accounts ==
                 Len(names) - Cardinality(SuccessfulUsernames(data))
             failed == FailedUsernames(names, data)
         IN [kind |-> "results",
             failed_accounts |-> failed_accounts,
             failed_usernames |-> IF failed_accounts > 0 THEN failed ELSE <<>>,
             listed |-> failed_accounts > 0 /\ failed # <<>>,
             \* calculate_analytics, generate_account_throttling_list:
             \* one row per df['账号'].unique()
             rows |-> SuccessfulUsernames(data)]

Display ==
    /\ mainpc = "returned"
    /\ mainpc' = "displayed"
    /\ display' = MainDisplay(usernames, all_data)
    /\ UNCHANGED <<anvars, inputs, tasks, future_to_username, all_data, success_count,
                   error_count, completed_count, outcomes, cachevars, opvars,
                   now>>

(* main(), lines 943-946: the clear button                                 *)

ClearAcquire ==
    /\ oppc = "idle"
    /\ clears < MaxClears
    /\ cache_lock = {}
    /\ cache_lock' = {OperatorThread}
    /\ oppc' = "clearing"
    /\ clears' = clears + 1
    /\ UNCHANGED <<anvars, inputs, tasks, mainvars, user_info_cache, put_at, now>>

ClearDo ==
    /\ oppc = "clearing"
    /\ user_info_cache' = <<>>
    /\ put_at' = <<>>
    /\ cache_lock' = cache_lock \ {OperatorThread}
    /\ oppc' = "idle"
    /\ UNCHANGED <<anvars, inputs, tasks, mainvars, clears, now>>

(* time passes                                                             *)

Tick ==
    /\ now < MaxTicks * TickStep
    /\ now' = now + TickStep
    /\ UNCHANGED <<anvars, inputs, tasks, mainvars, cachevars, opvars>>

-----------------------------------------------------------------------------
(* The analysis of the output: detect_throttling, calculate_analytics and  *)
(* generate_account_throttling_list, as main calls them (lines 1115-1128). *)
(* A frame is the sequence of its rows.  A float that is the quotient of   *)
(* two integers is kept exact, as <<numerator, denominator>> with a        *)
(* positive denominator.                                                   *)

Max(a, b) == IF a >= b THEN a ELSE b

Frac(n, d) == <<n, d>>
FracLess(a, b) == a[1] * b[2] < b[1] * a[2]
FracGeq(a, b) == ~FracLess(a, b)
FracMul(a, b) == <<a[1] * b[1], a[2] * b[2]>>

\* lines 244-246
CLEAR_THROTTLING_THRESHOLD == 10
SUSPECTED_THROTTLING_THRESHOLD == 50
MIN_ENGAGEMENT_RATE == Frac(1, 1000)

\* the three values of the throttling-status column
Suppressed == "Suppressed"
Suspected == "Suspected"
Normal == "Normal"

\* (mutant) the play threshold of the first rule taken as exclusive
classify_throttling_exclusive(row) ==
    LET total_engagement == row.like + row.comment + row.collect
        engagement_rate == Frac(total_engagement, Max(row.play, 1))
    IN  IF row.play < CLEAR_THROTTLING_THRESHOLD /\ total_engagement <= 5
        THEN Suppressed
        ELSE IF row.play <= SUSPECTED_THROTTLING_THRESHOLD
        THEN IF FracLess(engagement_rate, MIN_ENGAGEMENT_RATE)
             THEN Suspected ELSE Normal
        ELSE IF /\ row.play > SUSPECTED_THROTTLING_THRESHOLD
                /\ FracLess(engagement_rate,
                            FracMul(MIN_ENGAGEMENT_RATE, Frac(1, 10)))
        THEN Suspected
        ELSE Normal

\* lines 248-277
classify_throttling(row) ==
    LET total_engagement == row.like + row.comment + row.collect
        engagement_rate == Frac(total_engagement, Max(row.play, 1))
    IN  IF row.play <= CLEAR_THROTTLING_THRESHOLD /\ total_engagement <= 5
        THEN Suppressed
        ELSE IF row.play <= SUSPECTED_THROTTLING_THRESHOLD
        THEN IF FracLess(engagement_rate, MIN_ENGAGEMENT_RATE)
             THEN Suspected ELSE Normal
        ELSE IF /\ row.play > SUSPECTED_THROTTLING_THRESHOLD
                /\ FracLess(engagement_rate,
                            FracMul(MIN_ENGAGEMENT_RATE, Frac(1, 10)))
        THEN Suspected
        ELSE Normal

\* a row of the frame process_usernames returns: the columns the analysis
\* reads (account, follower count, publish time, the four counters)
Row(account, follower, time, play, like, comment, collect) ==
    [account |-> account, follower |-> follower, time |-> time,
     play |-> play, like |-> like, comment |-> comment, collect |-> collect]

\* lines 280-283: the status column, and the rate column
\* (engagement / play.replace(0, 1))
detect_throttling(df) ==
    [k \in 1..Len(df) |->
        df[k] @@
        [status |-> classify_throttling(df[k]),
         rate |-> Frac(df[k].like + df[k].comment + df[k].collect,
                       IF df[k].play = 0 THEN 1 ELSE df[k].play)]]

\* line 1115
DetectThrottling ==
    /\ anpc = "detect"
    /\ result_df_with_throttling' = detect_throttling(result_df)
    /\ anpc' = "analytics"
    /\ UNCHANGED <<batchvars, result_df, analytics_df, account_throttling_df>>

(* generate_account_throttling_list and its helpers                       *)

\* lines 292-294
ACCOUNT_CLEAR_THROTTLING_THRESHOLD == Frac(6, 10)
ACCOUNT_SUSPECTED_THROTTLING_THRESHOLD == Frac(4, 10)
ACCOUNT_TOTAL_THROTTLING_THRESHOLD == Frac(5, 10)

\* Series.unique(): the values in order of first appearance
RECURSIVE Unique(_)
Unique(s) ==
    IF s = <<>> THEN <<>>
    ELSE LET r == Unique(SubSeq(s, 1, Len(s) - 1)) IN
         IF s[Len(s)] \in Range(r) THEN r ELSE Append(r, s[Len(s)])

\* df['account'].unique()
Accounts(df) == Unique([k \in 1..Len(df) |-> df[k].account])

\* df[df['account'] == username]
UserData(df, username) == SelectSeq(df, LAMBDA r : r.account = username)

\* value_counts().get(status, 0)
CountStatus(user_data, status) ==
    Cardinality({k \in 1..Len(user_data) : user_data[k].status = status})

\* Series.sum()
RECURSIVE Sum(_)
Sum(xs) == IF xs = <<>> THEN 0 ELSE Head(xs) + Sum(Tail(xs))

RECURSIVE GCD(_, _)
GCD(a, b) == IF b = 0 THEN a ELSE GCD(b, a % b)

\* the least common multiple of the denominators of fs
RECURSIVE CommonDenominator(_)
CommonDenominator(fs) ==
    IF fs = <<>> THEN 1
    ELSE LET l == CommonDenominator(Tail(fs))
             d == Head(fs)[2]
         IN  (l * d) \div GCD(l, d)

\* Series.mean() of a column of integers
MeanInt(xs) == Frac(Sum(xs), Len(xs))

\* Series.mean() of a column of quotients
MeanFrac(fs) ==
    LET l == CommonDenominator(fs) IN
    Frac(Sum([k \in 1..Len(fs) |-> fs[k][1] * (l \div fs[k][2])]),
         l * Len(fs))

\* " | ".join(reasons)
RECURSIVE Join(_)
Join(reasons) ==
    IF Len(reasons) <= 1 THEN reasons
    ELSE <<Head(reasons), " | ">> \o Join(Tail(reasons))

\* (mutant) a mean play count of exactly 100 counted as low reach
get_throttling_reason_inclusive(clear_rate, suspected_rate, total_rate, avg_play, avg_engagement) ==
    LET reasons ==
            (IF FracGeq(clear_rate, Frac(6, 10))
             THEN <<"many posts near-zero plays">> ELSE <<>>) \o
            (IF FracGeq(suspected_rate, Frac(4, 10))
             THEN <<"abnormal engagement on majority">> ELSE <<>>) \o
            (IF ~FracLess(Frac(100, 1), avg_play)
             THEN <<"overall low reach">> ELSE <<>>) \o
            (IF FracLess(avg_engagement, Frac(1, 100))
             THEN <<"severe engagement shortfall">> ELSE <<>>)
    IN  IF reasons = <<>> THEN <<"no anomaly">> ELSE Join(reasons)

\* lines 356-372; the returned string is the sequence of its pieces
get_throttling_reason(clear_rate, suspected_rate, total_rate, avg_play, avg_engagement) ==
    LET reasons ==
            (IF FracGeq(clear_rate, Frac(6, 10))
             THEN <<"many posts near-zero plays">> ELSE <<>>) \o
            (IF FracGeq(suspected_rate, Frac(4, 10))
             THEN <<"abnormal engagement on majority">> ELSE <<>>) \o
            (IF FracLess(avg_play, Frac(100, 1))
             THEN <<"overall low reach">> ELSE <<>>) \o
            (IF FracLess(avg_engagement, Frac(1, 100))
             THEN <<"severe engagement shortfall">> ELSE <<>>)
    IN  IF reasons = <<>> THEN <<"no anomaly">> ELSE Join(reasons)

\* (mutant) the first threshold taken as exclusive
AccountStatusExclusive(clear_rate, suspected_rate, total_rate) ==
    IF FracLess(ACCOUNT_CLEAR_THROTTLING_THRESHOLD, clear_rate)
    THEN [status |-> Suppressed, risk |-> "High"]
    ELSE IF FracGeq(total_rate, ACCOUNT_TOTAL_THROTTLING_THRESHOLD)
    THEN [status |-> Suspected, risk |-> "Medium"]
    ELSE IF FracGeq(suspected_rate, ACCOUNT_SUSPECTED_THROTTLING_THRESHOLD)
    THEN [status |-> Suspected, risk |-> "Medium"]
    ELSE [status |-> Normal, risk |-> "Low"]

\* lines 319-330
AccountStatus(clear_rate, suspected_rate, total_rate) ==
    IF FracGeq(clear_rate, ACCOUNT_CLEAR_THROTTLING_THRESHOLD)
    THEN [status |-> Suppressed, risk |-> "High"]
    ELSE IF FracGeq(total_rate, ACCOUNT_TOTAL_THROTTLING_THRESHOLD)
    THEN [status |-> Suspected, risk |-> "Medium"]
    ELSE IF FracGeq(suspected_rate, ACCOUNT_SUSPECTED_THROTTLING_THRESHOLD)
    THEN [status |-> Suspected, risk |-> "Medium"]
    ELSE [status |-> Normal, risk |-> "Low"]

\* lines 304-352: the row of one account (the percentages that are only
\* formatted for display are left out)
AccountVerdict(username, user_data) ==
    LET total_videos == Len(user_data)
        clear_throttling == CountStatus(user_data, Suppressed)
        suspected_throttling == CountStatus(user_data, Suspected)
        normal_videos == CountStatus(user_data, Normal)
        clear_throttling_rate == Frac(clear_throttling, total_videos)
        suspected_throttling_rate == Frac(suspected_throttling, total_videos)
        total_throttling_rate ==
            Frac(clear_throttling + suspected_throttling, total_videos)
        verdict == AccountStatus(clear_throttling_rate,
                                 suspected_throttling_rate,
                                 total_throttling_rate)
        avg_play_count ==
            MeanInt([k \in 1..Len(user_data) |-> user_data[k].play])
        avg_engagement_rate ==
            MeanFrac([k \in 1..Len(user_data) |-> user_data[k].rate])
    IN  [account |-> username,
         follower |-> user_data[1].follower,
         status |-> verdict.status,
         risk |-> verdict.risk,
         total_videos |-> total_videos,
         clear_throttling |-> clear_throttling,
         suspected_throttling |-> suspected_throttling,
         normal_videos |-> normal_videos,
         avg_play_count |-> avg_play_count,
         avg_engagement_rate |-> avg_engagement_rate,
         reason |-> get_throttling_reason(clear_throttling_rate,
                                          suspected_throttling_rate,
                                          total_throttling_rate,
                                          avg_play_count,
                                          avg_engagement_rate)]

\* lines 287-354
generate_account_throttling_list(df) ==
    LET names == Accounts(df) IN
    [k \in 1..Len(names) |-> AccountVerdict(names[k], UserData(df, names[k]))]

(* calculate_analytics                                                     *)

FracSub(a, b) == <<a[1] * b[2] - b[1] * a[2], a[2] * b[2]>>
FracDiv(a, b) == <<a[1] * b[2], a[2] * b[1]>>

\* strftime("%Y-%m-%d %H:%M:%S"): fields of fixed width, zero padded; a
\* string of digits is the sequence of its digits
Fmt(t) == <<t \div 10, t % 10>>

\* line 183: the publish-time column; "" when create_time is absent or 0
PublishTime(create_time) ==
    IF Truthy(create_time) THEN Fmt(create_time) ELSE <<>>

\* a < b for Python strings
RECURSIVE StrLess(_, _)
StrLess(a, b) ==
    IF b = <<>> THEN FALSE
    ELSE IF a = <<>> THEN TRUE
    ELSE IF Head(a) # Head(b) THEN Head(a) < Head(b)
    ELSE StrLess(Tail(a), Tail(b))

\* sort_values('publish time', ascending=False) with the default quicksort,
\* which is not stable: rows of equal publish time come in any order
RECURSIVE SortValuesDesc(_)
SortValuesDesc(rows) ==
    IF rows = <<>> THEN {<<>>}
    ELSE LET r == Head(rows) IN
         UNION {
           {SubSeq(srt, 1, k) \o <<r>> \o SubSeq(srt, k + 1, Len(srt)) :
              k \in {k \in 0..Len(srt) :
                       /\ \A j \in 1..k : ~StrLess(srt[j].time, r.time)
                       /\ \A j \in (k + 1)..Len(srt) :
                              ~StrLess(r.time, srt[j].time)}} :
           srt \in SortValuesDesc(Tail(rows))}

\* (mutant) the frame taken as sorted with the earliest post first
GrowthOfAscending(user_data_sorted) ==
    LET n == Len(user_data_sorted)
        earliest_2 == MeanInt(<<user_data_sorted[1].play,
                                user_data_sorted[2].play>>)
        latest_2 == MeanInt(<<user_data_sorted[n - 1].play,
                              user_data_sorted[n].play>>)
    IN  IF FracLess(Frac(0, 1), earliest_2)
        THEN FracDiv(FracSub(latest_2, earliest_2), earliest_2)
        ELSE Frac(0, 1)

\* lines 409-414, for one sorted frame
GrowthOf(user_data_sorted) ==
    LET n == Len(user_data_sorted)
        latest_2 == MeanInt(<<user_data_sorted[1].play,
                              user_data_sorted[2].play>>)
        earliest_2 == MeanInt(<<user_data_sorted[n - 1].play,
                                user_data_sorted[n].play>>)
    IN  IF FracLess(Frac(0, 1), earliest_2)
        THEN FracDiv(FracSub(latest_2, earliest_2), earliest_2)
        ELSE Frac(0, 1)

\* lines 406-416: the values growth_trend can take
GrowthTrends(user_data) ==
    IF Len(user_data) >= 4
    THEN {GrowthOf(srt) : srt \in SortValuesDesc(user_data)}
    ELSE {Frac(0, 1)}

\* (mutant) the follower count used as the divisor as it is
FollowersUnfloored(user_info) == user_info.follower

\* line 387
Followers(user_info) == IF user_info.follower > 0 THEN user_info.follower ELSE 1

\* lines 386-447: the row of one account, for one value of growth_trend
\* (the stability column, a standard deviation, is left out)
AnalyticsRow(username, user_data, growth_trend) ==
    LET user_info == user_data[1]
        followers == Followers(user_info)
        n == Len(user_data)
        total == [k \in 1..n |-> user_data[k].like + user_data[k].comment
                                 + user_data[k].collect]
        total_interactions == Sum(total)
        deep_interactions ==
            Sum([k \in 1..n |-> user_data[k].comment + user_data[k].collect])
        clear_throttling == CountStatus(user_data, Suppressed)
        suspected_throttling == CountStatus(user_data, Suspected)
    IN  [account |-> username,
         follower |-> user_info.follower,
         videos |-> n,
         avg_play |-> MeanInt([k \in 1..n |-> user_data[k].play]),
         engagement_rate |->
             MeanFrac([k \in 1..n |-> Frac(total[k], user_data[k].play + 1)]),
         fan_efficiency |-> Frac(total_interactions, followers),
         growth_trend |-> growth_trend,
         deep_engagement |->
             IF total_interactions > 0
             THEN Frac(deep_interactions, total_interactions)
             ELSE Frac(0, 1),
         clear_throttling |-> clear_throttling,
         suspected_throttling |-> suspected_throttling,
         normal_videos |-> CountStatus(user_data, Normal),
         throttling_rate |-> Frac(clear_throttling + suspected_throttling, n)]

\* the rows calculate_analytics can build for one account
AnalyticsRows(df, username) ==
    {AnalyticsRow(username, UserData(df, username), g) :
        g \in GrowthTrends(UserData(df, username))}

\* lines 374-449: the frames calculate_analytics can return
calculate_analytics(df) ==
    LET names == Accounts(df) IN
    {f \in [1..Len(names) ->
               UNION {AnalyticsRows(df, names[k]) : k \in 1..Len(names)}] :
        \A k \in 1..Len(names) : f[k] \in AnalyticsRows(df, names[k])}

\* line 1119
CalculateAnalytics ==
    /\ anpc = "analytics"
    /\ analytics_df' \in calculate_analytics(result_df_with_throttling)
    /\ anpc' = "list"
    /\ UNCHANGED <<batchvars, result_df, result_df_with_throttling,
                   account_throttling_df>>

\* line 1128
GenerateAccountThrottlingList ==
    /\ anpc = "list"
    /\ account_throttling_df' =
           generate_account_throttling_list(result_df_with_throttling)
    /\ anpc' = "done"
    /\ UNCHANGED <<batchvars, result_df, result_df_with_throttling,
                   analytics_df>>

-----------------------------------------------------------------------------
(* Initial states and specifications                                       *)

HAlice == Str(<<"a", "l">>)
HBob   == Str(<<"b", "_", "1">>)
HBad   == Str(<<"a", " ", "b">>)     \* an inner space: invalid
HInt   == PyInt(7)                    \* a numeric cell of the uploaded file

BatchHandles == {HAlice, HBob, HBad, HInt}

\* main has not reached the analysis of the output
NoAnalysis ==
    /\ anpc = "off"
    /\ result_df = <<>>
    /\ result_df_with_throttling = <<>>
    /\ analytics_df = <<>>
    /\ account_throttling_df = <<>>

SeqsUpTo(S, n) == UNION {[1..k -> S] : k \in 1..n}

InitWith(names, limit, workers, posts, info) ==
    /\ usernames = names
    /\ video_limit = limit
    /\ max_workers = workers
    /\ api_posts = [h \in Range(names) |-> posts[h]]
    /\ api_info = [h \in Range(names) |-> info[h]]
    /\ tasks = [i \in 1..Len(names) |-> InitTask(names[i])]
    /\ user_info_cache = <<>>
    /\ cache_lock = {}
    /\ put_at = <<>>
    /\ now = 0
    /\ mainpc = "submit"
    /\ future_to_username = <<>>
    /\ all_data = <<>>
    /\ success_count = 0
    /\ error_count = 0
    /\ completed_count = 0
    /\ outcomes = <<>>
    /\ display = NoDisplay
    /\ oppc = "idle"
    /\ clears = 0
    /\ NoAnalysis

\* a concurrent batch
Init ==
    \E names \in SeqsUpTo(BatchHandles, MaxHandles), workers \in 1..MaxWorkers :
        InitWith(names, 2, workers,
                 [h \in BatchHandles |-> BatchPosts(h)],
                 [h \in BatchHandles |-> BatchInfo(h)])

WorkerNext ==
    \/ \E i \in Futures, w \in 1..max_workers : Start(i, w)
    \/ \E i \in Futures : Sleep(i)
    \/ \E i \in Futures : Validate(i)
    \/ \E i \in Futures : FvRequest(i)
    \/ \E i \in Futures : FvRespond(i)
    \/ \E i \in Futures : FvBackoff(i)
    \/ \E i \in Futures : FvBuild(i)
    \/ \E i \in Futures : UiAcquire(i)
    \/ \E i \in Futures : UiCheck(i)
    \/ \E i \in Futures : UiRequest(i)
    \/ \E i \in Futures : UiRespond(i)
    \/ \E i \in Futures : UiPutAcquire(i)
    \/ \E i \in Futures : UiPut(i)
    \/ \E i \in Futures : AfterFv(i)
    \/ \E i \in Futures : ProbeRespond(i)

MainNext ==
    \/ \E i \in Futures : Submit(i)
    \/ \E f \in Futures : Collect(f)
    \/ Return
    \/ Display

Next == WorkerNext \/ MainNext \/ ClearAcquire \/ ClearDo

Spec == Init /\ [][Next]_vars

\* the steps of one call of fetch_single_user_data
TaskNext(i) ==
    /\ i \in Futures
    /\ \/ \E w \in 1..max_workers : Start(i, w)
       \/ Sleep(i) \/ Validate(i) \/ FvRequest(i) \/ FvRespond(i)
       \/ FvBackoff(i) \/ FvBuild(i) \/ UiAcquire(i) \/ UiCheck(i)
       \/ UiRequest(i) \/ UiRespond(i) \/ UiPutAcquire(i) \/ UiPut(i)
       \/ AfterFv(i) \/ ProbeRespond(i)

\* Every thread that can run does run, and every HTTP call returns or times
\* out; the operator need not click, but a started clear completes.
FairSpec ==
    /\ Spec
    /\ \A i \in 1..(MaxHandles + 1) : WF_vars(TaskNext(i))
    /\ WF_vars(MainNext)
    /\ WF_vars(ClearDo)

\* a sequential run: one pool thread, the same handle fetched repeatedly,
\* every kind of answer of the API
InitFetch ==
    \E names \in SeqsUpTo({HAlice}, MaxCalls), limit \in 1..MaxLimit :
        InitWith(names, limit, 1,
                 [h \in {HAlice} |-> AllPosts(h)],
                 [h \in {HAlice} |-> AllInfo(h)])

NextFetch == WorkerNext \/ MainNext

SpecFetch == InitFetch /\ [][NextFetch]_vars

\* a sequential run while time passes
InitCache ==
    \E names \in SeqsUpTo({HAlice}, MaxCalls) :
        InitWith(names, 2, 1,
                 [h \in {HAlice} |-> BatchPosts(h)],
                 [h \in {HAlice} |-> BatchInfo(h)])

NextCache == WorkerNext \/ MainNext \/ Tick

SpecCache == InitCache /\ [][NextCache]_vars

\* a session: sequential calls for the same handle while time passes and the
\* operator may clear the cache
NextSession == WorkerNext \/ MainNext \/ Tick \/ ClearAcquire \/ ClearDo

SpecSession == InitCache /\ [][NextSession]_vars

\* the characters handles are made of: the kinds the pattern accepts, one it
\* rejects, and whitespace
HandleChars == {"a", "Z", "7", ".", "_", "-", " ", "\n"}

\* n times the character c
Repeat(c, n) == [k \in 1..n |-> c]

\* every string of up to MaxChars characters, and strings around the
\* length limit of 24
ValidateHandles ==
    {Str(s) : s \in {<<>>} \cup SeqsUpTo(HandleChars, MaxChars)}
    \cup {Str(Repeat("a", n)) : n \in {23, 24, 25}}
    \cup {Str(<<" ">> \o Repeat("a", 24) \o <<"\n">>),
          Str(<<" ">> \o Repeat("a", 25)),
          Str(Repeat("a", 23) \o <<"-">>),
          Str(Repeat("a", 12) \o <<" ">> \o Repeat("a", 11))}

\* a batch of one handle, any string
InitValidate ==
    \E h \in ValidateHandles :
        InitWith(<<h>>, 2, 1, [x \in {h} |-> BatchPosts(h)],
                 [x \in {h} |-> BatchInfo(h)])

NextValidate == WorkerNext \/ MainNext

SpecValidate == InitValidate /\ [][NextValidate]_vars

\* main at line 1115: the batch is over and its output is frame df
InitAnalysisWith(df) ==
    /\ usernames = <<>>
    /\ video_limit = 2
    /\ max_workers = 1
    /\ api_posts = <<>>
    /\ api_info = <<>>
    /\ tasks = <<>>
    /\ user_info_cache = <<>>
    /\ cache_lock = {}
    /\ put_at = <<>>
    /\ now = 0
    /\ mainpc = "displayed"
    /\ future_to_username = <<>>
    /\ all_data = <<>>
    /\ success_count = 0
    /\ error_count = 0
    /\ completed_count = 0
    /\ outcomes = <<>>
    /\ display = NoDisplay
    /\ oppc = "idle"
    /\ clears = 0
    /\ anpc = "detect"
    /\ result_df = df
    /\ result_df_with_throttling = <<>>
    /\ analytics_df = <<>>
    /\ account_throttling_df = <<>>

\* counters on both sides of every threshold of the classifier
ClassifierPlays == {0, 1, 10, 11, 50, 51, 10000, 10001}
ClassifierRows ==
    {Row(HAlice, 5, <<>>, play, like, comment, collect) :
        play \in ClassifierPlays, like \in {0, 1, 5, 6},
        comment \in {0, 1}, collect \in {0, 5}}

\* the kinds of post an account's verdict is rolled up from: two
\* Suppressed, two Suspected and two Normal ones, of low and high play
RollupPosts ==
    { <<5, 0>>, <<40, 0>>, <<200, 0>>, <<200, 2>>, <<100, 50>> }
RollupRows(account, follower) ==
    {Row(account, follower, <<>>, p[1], p[2], 0, 0) : p \in RollupPosts}

\* one account of up to MaxRows posts, in every order
RollupFrames == SeqsUpTo(RollupRows(HAlice, 5), MaxRows)

\* the posts of two accounts, interleaved
MixedFrames ==
    {<<a1, b1, a2, b2, b3>> :
        a1 \in RollupRows(HAlice, 5), a2 \in RollupRows(HAlice, 7),
        b1 \in RollupRows(HBob, 0), b2 \in {Row(HBob, 3, <<>>, 5, 0, 0, 0)},
        b3 \in {Row(HBob, 3, <<>>, 40, 0, 0, 0), Row(HBob, 3, <<>>, 5, 0, 0, 0)}}

\* 10 posts: 6 Suppressed, 2 Suspected, 2 Normal
TenPostFrame ==
    [k \in 1..10 |->
        IF k <= 6 THEN Row(HAlice, 5, PublishTime(k), 5, 0, 0, 0)
        ELSE IF k <= 8 THEN Row(HAlice, 5, PublishTime(k), 40, 0, 0, 0)
        ELSE Row(HAlice, 5, PublishTime(k), 200, 2, 0, 0)]

\* posts with and without a publish time, of equal and of different times
GrowthRows(times, plays) ==
    {Row(HAlice, 5, PublishTime(ct), play, 1, 0, 0) :
        ct \in times, play \in plays}

\* one account of 3 or MaxGrowthRows posts in every order, and of one post
\* more
GrowthFrames ==
    [1..3 -> GrowthRows({Absent, 12}, {0, 10})]
    \cup [1..MaxGrowthRows -> GrowthRows({Absent, 1, 2, 12}, {0, 10})]
    \cup {f \o <<r>> :
             f \in [1..MaxGrowthRows -> GrowthRows({1, 2}, {0, 10})],
             r \in GrowthRows({Absent, 12}, {30})}

AnalysisFrames ==
    {<<r>> : r \in ClassifierRows} \cup RollupFrames \cup MixedFrames
    \cup {TenPostFrame} \cup GrowthFrames

InitAnalysis == \E df \in AnalysisFrames : InitAnalysisWith(df)

NextAnalysis ==
    \/ DetectThrottling
    \/ CalculateAnalytics
    \/ GenerateAccountThrottlingList

SpecAnalysis == InitAnalysis /\ [][NextAnalysis]_vars

-----------------------------------------------------------------------------
(* Properties                                                              *)

\* process_usernames has returned
Returned == mainpc \in {"returned", "displayed"}

\* the task is inside an HTTP request
InRequest(i) == tasks[i].pc \in {"fv_wait", "ui_wait", "probe_wait"}

\* the number of times future f has been collected
OutcomeCount(f) ==
    Cardinality({k \in 1..Len(outcomes) : outcomes[k].future = f})

\* a success with records, or a failure with a reason code
IsOutcome(o) ==
    /\ o.raised = "none"
    /\ \/ o.success /\ o.records # <<>> /\ o.reason = "success"
       \/ ~o.success /\ o.records = <<>> /\
          o.reason \in {"invalid_username", "no_data_http_error",
                        "no_data_api_response", "no_data_network_error",
                        "exception_AttributeError", "exception_ValueError",
                        "exception_Timeout", "exception_ConnectionError"}

\* every future is collected at most once, exactly once at the return, and
\* what is collected is an outcome
C1_ExactlyOnce ==
    /\ \A f \in Futures : OutcomeCount(f) <= 1
    /\ \A k \in 1..Len(outcomes) : IsOutcome(outcomes[k])
    /\ Returned => \A f \in Futures : OutcomeCount(f) = 1

\* C1: when every thread keeps running and every HTTP call returns,
\* process_usernames eventually returns, and when it has returned every
\* submitted handle occurrence (duplicates included) has been collected
\* exactly once, as a success with records or a failure with a reason code.
C1_BatchCompletes == <>Returned /\ []C1_ExactlyOnce

\* a returned batch of the same handle twice, one occurrence a success and
\* the other a failure
C1_Witness ==
    /\ Returned
    /\ Len(usernames) = 2
    /\ usernames[1] = usernames[2]
    /\ \E k \in 1..Len(outcomes) : outcomes[k].success
    /\ \E k \in 1..Len(outcomes) : ~outcomes[k].success

\* the records of the successful outcomes, in collection order
CollectedRecords ==
    Concat([k \in 1..Len(outcomes) |->
               IF outcomes[k].success THEN outcomes[k].records ELSE <<>>])

\* a record of handle u made of what the API answered for u
OwnRecord(rec, u) ==
    /\ rec.account = u
    /\ rec.owner = u
    /\ rec.nickname \in {u, ApiNick(u)}

\* C2: whatever way a handle's task fails, no exception leaves the
\* dispatcher, the batch is not aborted (every future is still collected),
\* and the output is exactly the records of the successful handles, each
\* made of the API's answers for that handle alone.
C2_FailureIsolation ==
    /\ mainpc # "crashed"
    /\ \A k \in 1..Len(outcomes) :
           \A n \in 1..Len(outcomes[k].records) :
               OwnRecord(outcomes[k].records[n], outcomes[k].username)
    /\ all_data = CollectedRecords
    /\ Returned =>
           /\ Yielded = Futures
           /\ completed_count = Len(usernames)
           /\ success_count + error_count = Len(usernames)

\* a returned batch where one handle failed, after the other handle's
\* records were asked for, and the other handle's records are in the output
C2_Witness ==
    /\ Returned
    /\ Len(usernames) = 2
    /\ usernames[1] # usernames[2]
    /\ Len(outcomes) = 2
    /\ ~outcomes[1].success
    /\ outcomes[1].reason \in {"no_data_network_error", "exception_AttributeError"}
    /\ outcomes[2].success
    /\ all_data # <<>>

\* C7: a handle that validate_username rejects never reaches the network,
\* and its outcome is the failure invalid_username with no records.
C7_InvalidNeverFetched ==
    \A i \in Futures :
        (~ValidateRaises(usernames[i]) /\ ~validate_username(usernames[i])) =>
            /\ tasks[i].contacted = {}
            /\ ~InRequest(i)
            /\ tasks[i].pc = "finished" =>
                   tasks[i].result =
                       Result(usernames[i], <<>>, FALSE, "invalid_username")

\* an invalid handle's task has finished beside a valid handle's task that
\* has used the network
C7_Witness ==
    \E i, j \in Futures :
        /\ usernames[i] = HBad
        /\ tasks[i].pc = "finished"
        /\ tasks[j].contacted # {}

\* C9: at most max_workers tasks run at a time, a pool thread runs one task
\* at a time, and a task has finished its sleep before its first request.
C9_BoundedParallelism ==
    /\ Cardinality({i \in Futures : Running(i)}) <= max_workers
    /\ \A i, j \in Futures :
           (i # j /\ Running(i) /\ Running(j)) =>
               tasks[i].worker # tasks[j].worker
    /\ \A i \in Futures :
           (InRequest(i) \/ tasks[i].contacted # {}) => tasks[i].slept

\* the pool is full while a handle is still queued, and a task is inside a
\* request
C9_Witness ==
    /\ Cardinality({i \in Futures : Running(i)}) = max_workers
    /\ \E i \in Futures : tasks[i].pc = "queued"
    /\ \E i \in Futures : InRequest(i)

\* the threads inside a region that reads, inserts into or clears the cache
InCacheRegion ==
    {i \in Futures : tasks[i].pc \in {"ui_check", "ui_put"}}
    \cup (IF oppc = "clearing" THEN {OperatorThread} ELSE {})

\* C10: every read, insert and clear of the cache is made by the holder of
\* cache_lock, at most one thread is inside such a region, and no thread
\* holds the lock during an HTTP request.
C10_CacheMutualExclusion ==
    /\ InCacheRegion \subseteq cache_lock
    /\ Cardinality(InCacheRegion) <= 1
    /\ \A i \in Futures : InRequest(i) => i \notin cache_lock

\* one task is about to insert, holding the lock, while another waits for
\* the lock and the clear button has been used
C10_Witness ==
    /\ \E i, j \in Futures :
           /\ tasks[i].pc = "ui_put"
           /\ tasks[j].pc \in {"ui_lock", "ui_put_lock"}
    /\ clears > 0

\* C3: a lookup of h made more than 300 seconds after the insert of h's
\* entry misses the cache and goes on to a fresh profile request.
C3_ExpiredEntryMisses ==
    [][\A i \in Futures :
          (/\ tasks[i].pc = "ui_check"
           /\ usernames[i] \in DOMAIN user_info_cache
           /\ now - put_at[usernames[i]] > CacheTTL)
          => tasks'[i].pc \in {"ui_check", "ui_request"}]_vars

\* the task is inside fetch_user_videos, or has just got its return value
InFetchVideos(i) ==
    tasks[i].pc \in {"fv_request", "fv_wait", "fv_backoff", "fv_build",
                     "ui_lock", "ui_check", "ui_request", "ui_wait",
                     "ui_put_lock", "ui_put", "after_fv"}

\* C4: one call of fetch_user_videos sends at most 3 requests to the posts
\* endpoint, exactly one backoff precedes every request after the first,
\* and after the third answer the call returns (no backoff, no request).
C4_RetryBound ==
    \A i \in Futures :
        /\ tasks[i].posts <= 3
        /\ tasks[i].attempt <= 2
        /\ InFetchVideos(i) =>
               tasks[i].backoffs =
                   IF tasks[i].pc = "fv_request"
                   THEN tasks[i].posts ELSE tasks[i].posts - 1
        /\ tasks[i].pc \in {"fv_backoff", "fv_request"} => tasks[i].posts < 3

\* a call has returned after its third request and second backoff
C4_Witness ==
    \E i \in Futures :
        /\ tasks[i].pc = "after_fv"
        /\ tasks[i].posts = 3
        /\ tasks[i].backoffs = 2

\* HTTP 200 with an application code that is neither 0 nor transient
PermanentCode(r) ==
    /\ r.exc = "none" /\ r.status = 200 /\ r.parse
    /\ r.code # 0 /\ r.code \notin TransientCodes

\* HTTP 200 with a transient application code, or a timeout
TransientAnswer(r) ==
    \/ r.exc = "Timeout"
    \/ r.exc = "none" /\ r.status = 200 /\ r.parse /\ r.code \in TransientCodes

\* a non-transient code ends the call at once with the empty list: no
\* backoff and no request follow that answer
PermanentCodeReturnsAtOnce ==
    \A i \in Futures :
        (InFetchVideos(i) /\ PermanentCode(tasks[i].resp)) =>
            /\ tasks[i].pc = "after_fv"
            /\ tasks[i].user_data = <<>>
            /\ tasks[i].backoffs = tasks[i].posts - 1

\* C5 as stated: a non-transient code returns the empty list at once, and
\* only the transient codes and timeouts lead to another attempt.
C5_OnlyTransientRetried ==
    /\ PermanentCodeReturnsAtOnce
    /\ \A i \in Futures :
           tasks[i].pc = "fv_backoff" => TransientAnswer(tasks[i].resp)

\* C5 as amended: a non-transient code returns the empty list at once;
\* another attempt follows a transient code or a timeout, and also a
\* non-200 status, a connection error, a body that does not parse and an
\* exception raised while a successful answer is processed.
C5_NoRetryOnPermanentCode ==
    /\ PermanentCodeReturnsAtOnce
    /\ \A i \in Futures :
           tasks[i].pc = "fv_backoff" =>
               LET r == tasks[i].resp IN
               \/ TransientAnswer(r)
               \/ r.exc = "ConnectionError"
               \/ r.exc = "none" /\ r.status # 200
               \/ r.exc = "none" /\ r.status = 200 /\ ~r.parse
               \/ r.exc = "none" /\ r.status = 200 /\ r.parse /\
                  r.code = 0 /\ r.hasData /\ BuildRaises(r.videos)

\* a non-transient code has ended a call on its third attempt
C5_Witness ==
    \E i \in Futures :
        /\ PermanentCode(tasks[i].resp)
        /\ tasks[i].pc = "after_fv"
        /\ tasks[i].posts = 3

\* the four numeric fields of a profile record, or of a post record
AllZero(x) ==
    x.following = 0 /\ x.follower = 0 /\ x.heart = 0 /\ x.video = 0

\* an answer of the posts endpoint that is no successful answer
FailedAnswer(r) ==
    \/ r.exc \in ExcKinds
    \/ r.status # 200
    \/ ~r.parse
    \/ r.code # 0
    \/ ~r.hasData

EmptyFetch(o) ==
    o.reason \in {"no_data_http_error", "no_data_api_response",
                  "no_data_network_error"}

\* some occurrence of handle u succeeded
Succeeded(u) ==
    \E k \in 1..Len(outcomes) : outcomes[k].username = u /\ outcomes[k].success

\* what holds of every handle whose post fetch returned empty
EmptyFetchIsFailure ==
    /\ error_count = Cardinality({k \in 1..Len(outcomes) : ~outcomes[k].success})
    /\ \A k \in 1..Len(outcomes) :
           EmptyFetch(outcomes[k]) =>
               /\ ~outcomes[k].success
               /\ outcomes[k].records = <<>>

FirstMatchingRule(play, like, comment, collect) ==
    LET engagement == like + comment + collect
        divisor == IF play >= 1 THEN play ELSE 1
    IN  CASE play <= 10 /\ engagement <= 5              -> Suppressed
          [] play <= 50 /\ engagement * 1000 < divisor   -> Suspected
          [] play > 50 /\ engagement * 10000 < divisor   -> Suspected
          [] OTHER                                       -> Normal

\* C11: the verdict of every row is one of the three verdicts and is the
\* one the first matching rule gives for the row's four counters alone;
\* (10,0,0,5) is Suppressed, (11,0,0,5) is not, (50,1,0,0) is Normal.
C11_ClassifierFirstMatch ==
    /\ \A k \in 1..Len(result_df_with_throttling) :
           LET row == result_df_with_throttling[k] IN
           /\ row.status \in {Suppressed, Suspected, Normal}
           /\ row.status =
                  FirstMatchingRule(row.play, row.like, row.comment, row.collect)
    /\ \A r \in ClassifierRows :
           classify_throttling(r) =
               classify_throttling([r EXCEPT !.account = HBob, !.follower = 0,
                                             !.time = <<1>>])
    /\ classify_throttling(Row(HAlice, 0, <<>>, 10, 0, 0, 5)) = Suppressed
    /\ classify_throttling(Row(HAlice, 0, <<>>, 11, 0, 0, 5)) # Suppressed
    /\ classify_throttling(Row(HAlice, 0, <<>>, 50, 1, 0, 0)) = Normal

\* the classifier has run on a row that sits on both inclusive thresholds
C11_Witness ==
    \E k \in 1..Len(result_df_with_throttling) :
        LET row == result_df_with_throttling[k] IN
        /\ row.play = 10
        /\ row.like + row.comment + row.collect = 5
        /\ row.status = Suppressed

\* the posts of account u in the frame the analysis was given
PostsOf(u) == {k \in 1..Len(result_df) : result_df[k].account = u}

\* the number of posts of u that the listed rules give verdict v
VerdictCount(u, v) ==
    Cardinality({k \in PostsOf(u) :
        FirstMatchingRule(result_df[k].play, result_df[k].like,
                          result_df[k].comment, result_df[k].collect) = v})

\* the accounts of the verdict table
VerdictAccounts ==
    {account_throttling_df[k].account : k \in 1..Len(account_throttling_df)}

\* C12: the verdict table has one row for every account with posts, and the
\* row is Suppressed/High iff suppressedRate >= 0.6, otherwise
\* Suspected/Medium iff totalThrottleRate >= 0.5 or suspectedRate >= 0.4,
\* otherwise Normal/Low, the rates being those of the account's own posts.
C12_AccountRollup ==
    anpc = "done" =>
        /\ VerdictAccounts = {result_df[k].account : k \in 1..Len(result_df)}
        /\ Len(account_throttling_df) = Cardinality(VerdictAccounts)
        /\ \A k \in 1..Len(account_throttling_df) :
               LET v == account_throttling_df[k]
                   n == Cardinality(PostsOf(v.account))
                   suppressed == VerdictCount(v.account, Suppressed)
                   suspected == VerdictCount(v.account, Suspected)
                   high == 10 * suppressed >= 6 * n
                   medium == \/ 10 * (suppressed + suspected) >= 5 * n
                             \/ 10 * suspected >= 4 * n
               IN  /\ n >= 1
                   /\ (v.status = Suppressed /\ v.risk = "High") <=> high
                   /\ (v.status = Suspected /\ v.risk = "Medium") <=>
                          (~high /\ medium)
                   /\ (v.status = Normal /\ v.risk = "Low") <=>
                          (~high /\ ~medium)

\* the account of 10 posts, 6 Suppressed, 2 Suspected and 2 Normal, has
\* been given the verdict Suppressed/High
C12_Witness ==
    /\ anpc = "done"
    /\ result_df = TenPostFrame
    /\ account_throttling_df[1].clear_throttling = 6
    /\ account_throttling_df[1].suspected_throttling = 2
    /\ account_throttling_df[1].normal_videos = 2
    /\ account_throttling_df[1].status = Suppressed
    /\ account_throttling_df[1].risk = "High"

\* the reason codes that the four conditions call for, in the fixed order
ExpectedReasons(v) ==
    LET n == v.total_videos
        plays == Sum([k \in 1..Len(result_df) |->
                        IF result_df[k].account = v.account
                        THEN result_df[k].play ELSE 0])
    IN  (IF 10 * v.clear_throttling >= 6 * n
         THEN <<"many posts near-zero plays">> ELSE <<>>) \o
        (IF 10 * v.suspected_throttling >= 4 * n
         THEN <<"abnormal engagement on majority">> ELSE <<>>) \o
        (IF plays < 100 * n
         THEN <<"overall low reach">> ELSE <<>>) \o
        (IF 100 * v.avg_engagement_rate[1] < v.avg_engagement_rate[2]
         THEN <<"severe engagement shortfall">> ELSE <<>>)

\* the reason codes in a returned reason string
ReasonCodes(reason) == SelectSeq(reason, LAMBDA x : x # " | ")

\* C13: the reason codes of a verdict are exactly those whose condition
\* holds, in the fixed order, and the single code 'no anomaly' is produced
\* iff no condition holds.
C13_ReasonCodes ==
    anpc = "done" =>
        \A k \in 1..Len(account_throttling_df) :
            LET v == account_throttling_df[k]
                codes == ReasonCodes(v.reason)
            IN  /\ ExpectedReasons(v) # <<>> => codes = ExpectedReasons(v)
                /\ ExpectedReasons(v) = <<>> <=> codes = <<"no anomaly">>
                /\ "no anomaly" \in Range(codes) => Len(codes) = 1

\* one verdict carries three codes in the fixed order, another the code
\* 'no anomaly'
C13_Witness ==
    /\ anpc = "done"
    /\ Len(account_throttling_df) = 2
    /\ account_throttling_df[2].reason =
           <<"many posts near-zero plays", " | ", "overall low reach", " | ",
             "severe engagement shortfall">>
    /\ account_throttling_df[1].reason = <<"no anomaly">>

\* h, without the whitespace around it, is 1 to 24 characters, each an
\* ASCII letter, a digit, '.' or '_'
ValidHandle(h) ==
    \E a, b \in 1..Len(h.s) :
        /\ a <= b
        /\ h.s[a] \notin Whitespace
        /\ h.s[b] \notin Whitespace
        /\ \A k \in 1..Len(h.s) : (k < a \/ k > b) => h.s[k] \in Whitespace
        /\ b - a + 1 <= 24
        /\ \A k \in a..b : h.s[k] \in Lower \cup Upper \cup Digit \cup {".", "_"}

\* the task has got the answer of validate_username
Validated(i) ==
    tasks[i].pc \notin {"unsubmitted", "queued", "sleeping", "validate"}

\* C14: for every string h, validate_username(h) is true iff h trimmed of
\* surrounding whitespace is 1 to 24 characters of [A-Za-z0-9._]; a task
\* goes on to fetch exactly the handles of that form.
C14_ValidateUsername ==
    \A i \in Futures :
        usernames[i].py = "str" =>
            /\ validate_username(usernames[i]) <=> ValidHandle(usernames[i])
            /\ Validated(i) =>
                   (ValidHandle(usernames[i]) <=>
                       ~(/\ tasks[i].pc = "finished"
                         /\ tasks[i].result.reason = "invalid_username"))

\* a handle of 24 letters between whitespace has been accepted
C14_Witness ==
    \E i \in Futures :
        /\ Len(usernames[i].s) = 26
        /\ usernames[i].s[1] \in Whitespace
        /\ tasks[i].pc = "fv_wait"

\* an answer of the profile endpoint with code 0, data, user and stats
ProfileSuccess(r) ==
    /\ r.exc = "none" /\ r.parse
    /\ r.code = 0 /\ r.hasData /\ r.hasUser /\ r.hasStats

\* no fallback record is in the cache, and a lookup that waits for its
\* answer goes on to the insert exactly when the answer is a success
C15_NoFallbackStored ==
    /\ \A h \in DOMAIN user_info_cache : user_info_cache[h] # ZeroInfo(h)
    /\ \A i \in Futures :
           tasks[i].pc = "ui_wait" =>
               \A r \in api_info[usernames[i]] :
                   LET t == UiOnResponse(tasks[i], r) IN
                   IF ProfileSuccess(r)
                   THEN t.pc = "ui_put_lock" /\ t.user_info = InfoResult(r)
                   ELSE t.pc = "fv_build" /\ t.user_info = ZeroInfo(usernames[i])

\* the cache changes only by the insert that ends a successful lookup, which
\* maps the handle to the record returned; a failed lookup returns with the
\* cache unchanged; a lookup that finds no entry goes on to a request
C15_WriteOnSuccessOnly ==
    /\ user_info_cache' # user_info_cache =>
           \E i \in Futures :
               /\ tasks[i].pc = "ui_put"
               /\ tasks'[i].pc = "fv_build"
               /\ tasks'[i].user_info # ZeroInfo(usernames[i])
               /\ user_info_cache' =
                      DictPut(user_info_cache, usernames[i], tasks'[i].user_info)
    /\ \A i \in Futures :
           (tasks[i].pc = "ui_wait" /\ tasks'[i].pc = "fv_build") =>
               user_info_cache' = user_info_cache
    /\ \A i \in Futures :
           (tasks[i].pc = "ui_check" /\
            usernames[i] \notin DOMAIN user_info_cache) =>
               tasks'[i].pc \in {"ui_check", "ui_request"}

C16_HitOrRequest ==
    /\ \A i \in Futures :
           (tasks[i].pc = "ui_check" /\ tasks'[i].pc # "ui_check") =>
               IF usernames[i] \in DOMAIN user_info_cache
               THEN /\ tasks'[i].pc = "fv_build"
                    /\ tasks'[i].user_info = user_info_cache[usernames[i]]
                    /\ tasks'[i].profiles = tasks[i].profiles
                    /\ tasks'[i].contacted = tasks[i].contacted
               ELSE tasks'[i].pc = "ui_request"
    /\ (\E h \in DOMAIN user_info_cache : h \notin DOMAIN user_info_cache') =>
           oppc = "clearing" /\ oppc' = "idle"
    /\ (oppc = "clearing" /\ oppc' = "idle") => user_info_cache' = <<>>
    /\ \A h \in DOMAIN user_info_cache \cap DOMAIN user_info_cache' :
           user_info_cache'[h] # user_info_cache[h] =>
               \E i \in Futures : tasks[i].pc = "ui_put" /\ usernames[i] = h

C17_ProfileNumbersNeverNull ==
    \A i \in Futures :
        (tasks[i].pc \in {"ui_put_lock", "ui_put", "fv_build"} /\
         ~IsNone(tasks[i].user_info)) =>
            /\ tasks[i].user_info.following \in Nat
            /\ tasks[i].user_info.follower \in Nat
            /\ tasks[i].user_info.heart \in Nat
            /\ tasks[i].user_info.video \in Nat

\* the call of task i has returned min(limit, k) records, the j-th built
\* from the j-th post of the answer, each carrying the requested handle
ShapedResult(i) ==
    LET k == Len(tasks[i].resp.videos)
        n == IF video_limit <= k THEN video_limit ELSE k
    IN  /\ video_limit >= 1
        /\ Len(tasks[i].user_data) = n
        /\ \A j \in 1..n :
               /\ tasks[i].user_data[j].video_id =
                      tasks[i].resp.videos[j].video_id
               /\ tasks[i].user_data[j].owner = tasks[i].resp.videos[j].owner
               /\ tasks[i].user_data[j].account = usernames[i]

PublishedBefore(a, b) == StrLess(result_df[a].time, result_df[b].time)

\* the pairs of posts of P that can be called the 2 latest: no other post
\* of P was published after one of them
LatestPairs(P) ==
    {H \in SUBSET P :
        /\ Cardinality(H) = 2
        /\ \A h \in H : \A o \in P \ H : ~PublishedBefore(h, o)}

\* the pairs of posts of P that can be called the 2 earliest
EarliestPairs(P) ==
    {T \in SUBSET P :
        /\ Cardinality(T) = 2
        /\ \A t \in T : \A o \in P \ T : ~PublishedBefore(o, t)}

\* the sum of the play counts of the posts in X
RECURSIVE PlaySum(_)
PlaySum(X) ==
    IF X = {} THEN 0
    ELSE LET k == CHOOSE k \in X : TRUE IN
         result_df[k].play + PlaySum(X \ {k})

\* g is (mean play of H - mean play of T) / (mean play of T), and 0 when the
\* mean play of T is 0
GrowthIs(g, H, T) ==
    /\ g[2] # 0
    /\ IF PlaySum(T) = 0 THEN g[1] = 0
       ELSE g[1] * PlaySum(T) = (PlaySum(H) - PlaySum(T)) * g[2]

\* the analytics table has been computed
Analysed == anpc \in {"list", "done"}

\* C19 as stated: growthTrend is 0 for fewer than 4 posts and otherwise the
\* growth from the 2 earliest to the 2 latest posts by publish time, whatever
\* the order of the records: whichever posts of equal publish time are
\* taken as the 2 latest and the 2 earliest, the value is that growth.
C19_GrowthTrendAnyOrder ==
    Analysed =>
        \A k \in 1..Len(analytics_df) :
            LET v == analytics_df[k]
                P == PostsOf(v.account)
            IN  IF Cardinality(P) < 4
                THEN v.growth_trend[1] = 0 /\ v.growth_trend[2] # 0
                ELSE \A H \in LatestPairs(P), T \in EarliestPairs(P) :
                         H \cap T = {} => GrowthIs(v.growth_trend, H, T)

\* the cut between the 2 latest posts, the 2 earliest posts and the rest
\* falls between posts of different publish times
CutUnambiguous(P) ==
    Cardinality(LatestPairs(P)) = 1 /\ Cardinality(EarliestPairs(P)) = 1

\* C19 as amended: growthTrend is 0 for fewer than 4 posts; otherwise it is
\* the growth from 2 earliest to 2 latest posts for some way of ordering the
\* posts of equal publish time (a post without publish time counting as
\* earlier than every dated post), and so it is determined by the records,
\* whatever their order, when the cut falls between different times.
C19_GrowthTrend ==
    Analysed =>
        \A k \in 1..Len(analytics_df) :
            LET v == analytics_df[k]
                P == PostsOf(v.account)
            IN  IF Cardinality(P) < 4
                THEN v.growth_trend[1] = 0 /\ v.growth_trend[2] # 0
                ELSE /\ \E H \in LatestPairs(P), T \in EarliestPairs(P) :
                            H \cap T = {} /\ GrowthIs(v.growth_trend, H, T)
                     /\ CutUnambiguous(P) =>
                            \A H \in LatestPairs(P), T \in EarliestPairs(P) :
                                GrowthIs(v.growth_trend, H, T)

\* four posts arriving out of order, the first one without publish time,
\* with a growth that is not 0
C19_Witness ==
    /\ Analysed
    /\ Len(result_df) = 4
    /\ result_df[1].time = <<>>
    /\ PublishedBefore(3, 4)
    /\ PublishedBefore(4, 2)
    /\ CutUnambiguous(PostsOf(HAlice))
    /\ analytics_df[1].growth_trend[1] # 0

\* the first record of account u in the frame
FirstPost(u) == CHOOSE k \in PostsOf(u) : \A j \in PostsOf(u) : k <= j

\* the sum of like + comment + collect over the posts in X
RECURSIVE InteractionSum(_)
InteractionSum(X) ==
    IF X = {} THEN 0
    ELSE LET k == CHOOSE k \in X : TRUE IN
         result_df[k].like + result_df[k].comment + result_df[k].collect
         + InteractionSum(X \ {k})

\* C20: followerEfficiency is the sum of like + comment + collect over the
\* account's posts divided by max(followers, 1), followers being the
\* follower count of the account's first record; the divisor is never 0, and
\* the follower column keeps the original count.
C20_FollowerEfficiency ==
    Analysed =>
        \A k \in 1..Len(analytics_df) :
            LET v == analytics_df[k]
                followers == result_df[FirstPost(v.account)].follower
            IN  /\ v.fan_efficiency[2] # 0
                /\ v.fan_efficiency[2] =
                       (IF followers >= 1 THEN followers ELSE 1)
                /\ v.fan_efficiency[1] = InteractionSum(PostsOf(v.account))
                /\ v.follower = followers

\* an account whose first record has 0 followers (and a later one 3) has an
\* efficiency with divisor 1 and reports 0 followers
C20_Witness ==
    /\ Analysed
    /\ \E k \in 1..Len(analytics_df) :
           /\ analytics_df[k].account = HBob
           /\ analytics_df[k].follower = 0
           /\ analytics_df[k].fan_efficiency[2] = 1
           /\ \E j \in PostsOf(HBob) : result_df[j].follower = 3

\* the posts of the last answer that call i keeps
KeptPosts(i) ==
    LET k == Len(tasks[i].resp.videos) IN
    SubSeq(tasks[i].resp.videos, 1,
           IF video_limit <= k THEN video_limit ELSE k)

\* call i has had a successful answer with posts and has not asked again
AnsweredWithPosts(i) ==
    /\ tasks[i].pc # "finished"
    /\ tasks[i].resp # NoResp
    /\ ~FailedAnswer(tasks[i].resp)
    /\ KeptPosts(i) # <<>>

\* one of the posts that call i keeps has "author": null
SomeAuthorNull(i) == \E k \in 1..Len(KeptPosts(i)) : KeptPosts(i)[k].author.isNull

\* a count that is absent, null or zero
NoCount(v) == v \in {Absent, Null, 0}

\* the inline author block has neither a follower nor a following count
LacksBothCounts(author) ==
    NoCount(author.follower_count) /\ NoCount(author.following_count)

\* call i is inside fetch_user_info
InLookup(i) ==
    tasks[i].pc \in {"ui_lock", "ui_check", "ui_request", "ui_wait",
                     "ui_put_lock", "ui_put"}

\* what fetch_user_info can return to call i: an entry of the cache, the
\* record of a successful answer, or the record of zeros
LookupReturn(i, info) ==
    \/ info = [nickname |-> usernames[i], following |-> 0, follower |-> 0,
               heart |-> 0, video |-> 0]
    \/ \E r \in api_info[usernames[i]] : ProfileSuccess(r) /\ info = InfoResult(r)

\* the profile fields of a record
ProfileFields(rec) ==
    <<rec.nickname, rec.following, rec.follower, rec.heart, rec.video>>

\* the profile fields of the inline author block of a post, 0 for a key
\* that is absent
InlineFields(username, video) ==
    LET get(v) == IF v = Absent THEN 0 ELSE v IN
    <<username, get(video.author.following_count),
      get(video.author.follower_count), get(video.author.heart_count),
      get(video.author.aweme_count)>>

\* the records call i has built are one per kept post, each with the
\* profile fields fields(k)
RecordsCarry(i, fields(_)) ==
    /\ Len(tasks[i].user_data) = Len(KeptPosts(i))
    /\ \A k \in 1..Len(KeptPosts(i)) :
           ProfileFields(tasks[i].user_data[k]) = fields(k)

\* the rule of the inline-profile optimisation for call i
InlineProfileRule(i) ==
    LET t == tasks[i]
        lookup(k) == ProfileFields(t.user_info)
        inline(k) == InlineFields(usernames[i], KeptPosts(i)[k])
    IN  IF LacksBothCounts(KeptPosts(i)[1].author)
        THEN \/ InLookup(i)
             \/ /\ t.pc \in {"fv_build", "after_fv"}
                /\ ~IsNone(t.user_info)
                /\ LookupReturn(i, t.user_info)
                /\ t.pc = "after_fv" => RecordsCarry(i, lookup)
        ELSE /\ ~InLookup(i)
             /\ t.pc \in {"fv_build", "after_fv"}
             /\ IsNone(t.user_info)
             /\ t.pc = "after_fv" => RecordsCarry(i, inline)

CountersAgree ==
    /\ completed_count = success_count + error_count
    /\ completed_count <= Len(usernames)
    /\ completed_count = Cardinality(Yielded)
    /\ success_count >= 0 /\ error_count >= 0
    /\ Returned => completed_count = Len(usernames)

\* call i is waiting for cache_lock
AwaitsLock(i) == tasks[i].pc \in {"ui_lock", "ui_put_lock"}

\* call i can take its next step, as far as the calls, the pool and the
\* cache lock decide
CanStep(i) ==
    \/ /\ tasks[i].pc = "queued"
       /\ \A j \in 1..(i - 1) : tasks[j].pc # "queued"
       /\ BusyWorkers # 1..max_workers
    \/ Running(i) /\ ~AwaitsLock(i)
    \/ Running(i) /\ AwaitsLock(i) /\ cache_lock = {}

\* whether a call can take its next step does not depend on the counters
CountersDoNotSchedule ==
    \A i \in Futures : (ENABLED TaskNext(i)) <=> CanStep(i)

\* the counters move only when an outcome is collected, completed by exactly
\* 1 and one of success and failure with it, and that step leaves every
\* call, and so what it returns, as it was; a step of a call leaves the
\* counters as they were
CounterStep ==
    /\ completed_count' - completed_count = Len(outcomes') - Len(outcomes)
    /\ completed_count' \in {completed_count, completed_count + 1}
    /\ success_count' >= success_count
    /\ error_count' >= error_count
    /\ completed_count' # completed_count => tasks' = tasks
    /\ tasks' # tasks =>
           /\ success_count' = success_count
           /\ error_count' = error_count
           /\ completed_count' = completed_count

=============================================================================
